---- MODULE Spec2Model ----
(***************************************************************************)
(* A model of wlsdeploy/tool/create/domain_typedef.py: the DomainTypedef   *)
(* class.  One object is modelled, from the start of its constructor to    *)
(* the calls made on it afterwards.  The parsed typedef document, the      *)
(* WebLogicHelper (the version oracle), the program name and the platform  *)
(* are inputs drawn in Init; the arguments of the calls are drawn by the   *)
(* actions.                                                                *)
(*                                                                         *)
(* Representation.  A Python dict is a function whose DOMAIN is its key    *)
(* set, a Python list is a sequence.  Text that the model context may      *)
(* rewrite (template paths, scripts, server group names) is a sequence of  *)
(* atoms, an atom being a token such as "@@ORACLE_HOME@@" or a literal     *)
(* piece of text.  Names and regular expressions are sequences of          *)
(* characters.  Python's None is the string "None" where the value is      *)
(* otherwise a string; True and False are the strings "True" and "False".  *)
(* A value that is None or a dict or a text is a sequence of at most one   *)
(* element, the empty sequence being None.                                 *)
(***************************************************************************)
EXTENDS Integers, Sequences, FiniteSets, TLC

VARIABLES
    program_name,           \* self._program_name
    domain_type,            \* self._domain_type
    is_windows,             \* IS_WINDOWS
    wls_helper,             \* self.wls_helper, the version oracle
    parsed_dict,            \* the document as json_parser.parse() returned it
    domain_typedefs_dict,   \* self._domain_typedefs_dict
    pc,                     \* where the object is: "new", "search", "matched", "ready", "failed"
    wls_version,            \* local of __match_version_typedef
    new_version,            \* local of __match_version_typedef
    result,                 \* local of __match_version_typedef
    version_typedef_name,   \* self._version_typedef_name
    paths_resolved,         \* self._paths_resolved
    model_context,          \* self._model_context
    domain_typedef,         \* self._domain_typedef
    targeting_type,         \* self._targeting_type
    post_create_domain_script_dict, \* self._post_create_domain_script_dict
    discover_filters,       \* self._discover_filters
    topology_profile,       \* self._topology_profile
    helper_calls,           \* the WebLogicHelper methods called so far
    ret                     \* the outcome of the last call made on the object

vars == <<program_name, domain_type, is_windows, wls_helper, parsed_dict, domain_typedefs_dict,
          pc, wls_version, new_version, result, version_typedef_name,
          paths_resolved, model_context, domain_typedef, targeting_type,
          post_create_domain_script_dict, discover_filters, topology_profile,
          helper_calls, ret>>

----------------------------------------------------------------------------
(* Bounds of the model. *)

\* how many product versions the oracle knows
MaxVersion == 4

\* the longest template list of a definition
MaxTemplates == 2

\* the longest pattern list of a discover filter
MaxFilters == 2

----------------------------------------------------------------------------
(* Module constants of domain_typedef.py. *)

None == "None"

CREATE_DOMAIN == "createDomain"

DISCOVER_DOMAIN == "discoverDomain"

NOT_SUPPORTED == "NOT_SUPPORTED"

RESTRICTED_JRF_TEMPLATE == <<"Oracle Restricted JRF">>

JRF_TEMPLATE == <<"Oracle JRF">>

JRF_SERVER_GROUP == <<"JRF-MAN-SVR">>

key_mapping_table ==
    [k \in {"apps", "coherence-clusters", "datasources", "file-stores", "jms",
            "jms-server", "shared-libraries", "shutdown-classes",
            "startup-classes", "wldf"} |->
        CASE k = "apps" -> "/Application"
          [] k = "coherence-clusters" -> "/CoherenceClusterSystemResource"
          [] k = "datasources" -> "/JDBCSystemResource"
          [] k = "file-stores" -> "/FileStore"
          [] k = "jms" -> "/JMSSystemResource"
          [] k = "jms-server" -> "/JMSServer"
          [] k = "shared-libraries" -> "/Library"
          [] k = "shutdown-classes" -> "/ShutdownClass"
          [] k = "startup-classes" -> "/StartupClass"
          [] k = "wldf" -> "/WLDFSystemResource"]

\* the members of the TargetingType enumeration
TargetingType == {"APPLY_JRF_GLOBALLY", "DO_NOT_APPLY_JRF_GLOBALLY"}

\* the members of the TopologyProfile enumeration
TopologyProfile == {"Compact", "Expanded"}

----------------------------------------------------------------------------
(* Python's dict operations. *)

\* k in d
Has(d, k) == k \in DOMAIN d

\* d[k] = v
Put(d, k, v) == [x \in (DOMAIN d) \cup {k} |-> IF x = k THEN v ELSE d[x]]

\* True or False
PyBool(b) == IF b THEN "True" ELSE "False"

\* the dict with the one item k: v
Item(k, v) == [x \in {k} |-> v]

\* the dict with no items
EmptyDict == [x \in {} |-> x]

\* every dict with keys among K and values among V
Dicts(K, V) == UNION {[S -> V] : S \in SUBSET K}

\* every list over S of at most n elements
Lists(S, n) == UNION {[1..k -> S] : k \in 0..n}

----------------------------------------------------------------------------
(* The collaborators: the model context's token substitution and re.match. *)

\* the model contexts a caller may hand to set_model_context
ModelContexts == {"mc1", "mc2"}

\* the directories a model context holds.  The Oracle home of "mc2" is a
\* directory whose name contains the text of a token, so substituting twice
\* differs from substituting once.
oracle_home(mc) == IF mc = "mc1" THEN <<"/u01/oracle">> ELSE <<"/opt/", "@@WL_HOME@@">>

wl_home(mc) == IF mc = "mc1" THEN <<"/u01/oracle/wlserver">> ELSE <<"/opt/wls">>

\* what one atom of a text becomes
replace_token(mc, atom) ==
    IF atom = "@@ORACLE_HOME@@" THEN oracle_home(mc)
    ELSE IF atom = "@@WL_HOME@@" THEN wl_home(mc)
    ELSE <<atom>>

\* model_context.replace_token_string(text): one pass over the text, every
\* token replaced by its value
RECURSIVE replace_token_string(_, _)
replace_token_string(mc, text) ==
    IF text = <<>> THEN <<>>
    ELSE replace_token(mc, Head(text)) \o replace_token_string(mc, Tail(text))

\* re.match(pattern, name) is not None: the pattern matches a prefix of the
\* name, starting at its first character.  A pattern is a sequence of
\* literal characters and ".", which matches any one character.
RECURSIVE re_match(_, _)
re_match(pattern, name) ==
    IF pattern = <<>> THEN TRUE
    ELSE IF name = <<>> THEN FALSE
    ELSE /\ (Head(pattern) = "." \/ Head(pattern) = Head(name))
         /\ re_match(Tail(pattern), Tail(name))

----------------------------------------------------------------------------
(* The inputs. *)

\* the product versions, lowest first
VersionNames == <<"10.3.6", "12.1.3", "12.2.1.3", "12.2.1.4", "14.1.1", "14.1.2">>

Versions == {VersionNames[i] : i \in 1..MaxVersion}

VersionIndex(v) == CHOOSE i \in 1..MaxVersion : VersionNames[i] = v

\* the successions get_next_higher_order_version_number may implement: the
\* next version is a higher one, or None
NextHigherTables ==
    {f \in [Versions -> Versions \cup {None}] :
        \A v \in Versions : f[v] # None => VersionIndex(f[v]) > VersionIndex(v)}

\* the succession that skips no version
NextInOrder ==
    [v \in Versions |->
        IF VersionIndex(v) = MaxVersion THEN None ELSE VersionNames[VersionIndex(v) + 1]]

\* the helpers of the version search: every current version, every succession
SearchHelpers ==
    {[actual_version |-> v, next_higher |-> f,
      set_server_groups_supported |-> TRUE, topology_profile_supported |-> TRUE] :
        v \in Versions, f \in NextHigherTables}

\* the helpers that differ in what the product version supports
CapabilityHelpers ==
    {[actual_version |-> VersionNames[1], next_higher |-> NextInOrder,
      set_server_groups_supported |-> g, topology_profile_supported |-> t] :
        g \in BOOLEAN, t \in BOOLEAN}

\* a helper for the documents that do not depend on it
PlainHelper ==
    [actual_version |-> VersionNames[1], next_higher |-> NextInOrder,
     set_server_groups_supported |-> TRUE, topology_profile_supported |-> TRUE]

\* template paths
TokenPath == <<"@@ORACLE_HOME@@", "/wls.jar">>

WlPath == <<"@@WL_HOME@@", "/jrf_template.jar">>

PlainPath == <<"/templates/base.jar">>

\* a definition with nothing but its base template
PlainTypedef == Item("baseTemplate", TokenPath)

\* the versions tables of the version search
SearchTables == Dicts(Versions, {"WLS", NOT_SUPPORTED})

\* a versions table that names the definition "WLS" for the lowest version
PlainVersions == Item(VersionNames[1], "WLS")

\* the documents of the version search
SearchDocuments ==
    {Item("versions", t) @@ Item("definitions", Item("WLS", PlainTypedef)) :
        t \in SearchTables}

----------------------------------------------------------------------------
(* The outcome of a call. *)

\* the call returned value
Returned(op, args, value) ==
    [op |-> op, args |-> args, exc |-> None, raised |-> None, value |-> <<value>>]

\* the call raised the exception of class exc with message id
Raised(op, args, exc, id) ==
    [op |-> op, args |-> args, exc |-> exc, raised |-> id, value |-> <<>>]

\* no call was made yet
NoCall == [op |-> None, args |-> <<>>, exc |-> None, raised |-> None, value |-> <<>>]

----------------------------------------------------------------------------
(* The constructor: __init__, __get_version_typedef, __match_version_typedef, *)
(* _resolve_targeting_type, _translate_system_elements,                     *)
(* _resolve_topology_profile.                                               *)

\* a slip: the check of the empty versions table left out
versions_dict_is_empty_unchecked(versions_dict) == FALSE

\* len(versions_dict) == 0
versions_dict_is_empty(versions_dict) == DOMAIN versions_dict = {}

\* a slip: the current version never looked up
exact_match_skipped(versions_dict, version) == FALSE

\* wls_version in versions_dict
exact_match(versions_dict, version) == version \in DOMAIN versions_dict

\* a slip: NOT_SUPPORTED taken for the name of a definition
is_not_supported_ignored(res) == FALSE

\* result == NOT_SUPPORTED
is_not_supported(res) == res = NOT_SUPPORTED

\* a slip: the loop without its break, so a later key replaces an earlier one
search_step_without_break(versions_dict, helper, res, candidate) ==
    IF candidate = None
    THEN [result |-> res, new_version |-> candidate, searching |-> FALSE]
    ELSE [result |-> IF candidate \in DOMAIN versions_dict
                     THEN versions_dict[candidate] ELSE res,
          new_version |-> helper.next_higher[candidate],
          searching |-> TRUE]

\* a slip: the helper asked about the current version again, not about the
\* candidate
search_step_asks_about_current(versions_dict, helper, res, candidate) ==
    IF candidate = None
    THEN [result |-> res, new_version |-> candidate, searching |-> FALSE]
    ELSE IF candidate \in DOMAIN versions_dict
    THEN [result |-> versions_dict[candidate], new_version |-> candidate,
          searching |-> FALSE]
    ELSE [result |-> res, new_version |-> helper.next_higher[helper.actual_version],
          searching |-> TRUE]

\* one turn of the while loop of __match_version_typedef: the candidate is
\* None and the loop ends, or it is a key and the loop breaks with its entry,
\* or the helper is asked for the next candidate
search_step(versions_dict, helper, res, candidate) ==
    IF candidate = None
    THEN [result |-> res, new_version |-> candidate, searching |-> FALSE]
    ELSE IF candidate \in DOMAIN versions_dict
    THEN [result |-> versions_dict[candidate], new_version |-> candidate,
          searching |-> FALSE]
    ELSE [result |-> res, new_version |-> helper.next_higher[candidate],
          searching |-> TRUE]

\* the constructor failed
InitRaises(exc, id) ==
    /\ pc' = "failed"
    /\ ret' = Raised("__init__", <<>>, exc, id)

\* a slip: definitions not looked for before the version is matched
GetVersionTypedef_definitions_unchecked ==
    /\ pc = "new"
    /\ IF ~Has(domain_typedefs_dict, "versions")
       THEN /\ InitRaises("CLAException", "WLSDPLY-12304")
            /\ UNCHANGED <<wls_version, new_version, result, helper_calls>>
       ELSE IF versions_dict_is_empty(domain_typedefs_dict["versions"])
       THEN /\ InitRaises("CLAException", "WLSDPLY-12307")
            /\ UNCHANGED <<wls_version, new_version, result, helper_calls>>
       ELSE LET versions_dict == domain_typedefs_dict["versions"]
                version == wls_helper.actual_version
            IN  /\ wls_version' = version
                /\ IF exact_match(versions_dict, version)
                   THEN /\ result' = versions_dict[version]
                        /\ pc' = "matched"
                        /\ helper_calls' = helper_calls \cup {"get_actual_weblogic_version"}
                        /\ UNCHANGED new_version
                   ELSE /\ new_version' = wls_helper.next_higher[version]
                        /\ pc' = "search"
                        /\ helper_calls' = helper_calls \cup
                               {"get_actual_weblogic_version",
                                "get_next_higher_order_version_number"}
                        /\ UNCHANGED result
                /\ UNCHANGED ret
    /\ UNCHANGED <<program_name, domain_type, is_windows, wls_helper, parsed_dict,
                   domain_typedefs_dict, version_typedef_name, paths_resolved,
                   model_context, domain_typedef, targeting_type,
                   post_create_domain_script_dict, discover_filters,
                   topology_profile>>

\* __init__ up to the while loop of __match_version_typedef: the document
\* must have versions and definitions and the versions must not be empty;
\* then the current version is looked up, and when it is no key the helper
\* is asked for the next higher version
GetVersionTypedef ==
    /\ pc = "new"
    /\ IF ~Has(domain_typedefs_dict, "versions")
       THEN /\ InitRaises("CLAException", "WLSDPLY-12304")
            /\ UNCHANGED <<wls_version, new_version, result, helper_calls>>
       ELSE IF ~Has(domain_typedefs_dict, "definitions")
       THEN /\ InitRaises("CLAException", "WLSDPLY-12305")
            /\ UNCHANGED <<wls_version, new_version, result, helper_calls>>
       ELSE IF versions_dict_is_empty(domain_typedefs_dict["versions"])
       THEN /\ InitRaises("CLAException", "WLSDPLY-12307")
            /\ UNCHANGED <<wls_version, new_version, result, helper_calls>>
       ELSE LET versions_dict == domain_typedefs_dict["versions"]
                version == wls_helper.actual_version
            IN  /\ wls_version' = version
                /\ IF exact_match(versions_dict, version)
                   THEN /\ result' = versions_dict[version]
                        /\ pc' = "matched"
                        /\ helper_calls' = helper_calls \cup {"get_actual_weblogic_version"}
                        /\ UNCHANGED new_version
                   ELSE /\ new_version' = wls_helper.next_higher[version]
                        /\ pc' = "search"
                        /\ helper_calls' = helper_calls \cup
                               {"get_actual_weblogic_version",
                                "get_next_higher_order_version_number"}
                        /\ UNCHANGED result
                /\ UNCHANGED ret
    /\ UNCHANGED <<program_name, domain_type, is_windows, wls_helper, parsed_dict,
                   domain_typedefs_dict, version_typedef_name, paths_resolved,
                   model_context, domain_typedef, targeting_type,
                   post_create_domain_script_dict, discover_filters,
                   topology_profile>>

\* one turn of the while loop
SearchVersion ==
    /\ pc = "search"
    /\ LET step == search_step(domain_typedefs_dict["versions"], wls_helper,
                               result, new_version)
       IN  /\ result' = step.result
           /\ new_version' = step.new_version
           /\ pc' = IF step.searching THEN "search" ELSE "matched"
           /\ helper_calls' = IF step.searching
                              THEN helper_calls \cup {"get_next_higher_order_version_number"}
                              ELSE helper_calls
    /\ UNCHANGED <<program_name, domain_type, is_windows, wls_helper, parsed_dict,
                   domain_typedefs_dict, wls_version, version_typedef_name,
                   paths_resolved, model_context, domain_typedef, targeting_type,
                   post_create_domain_script_dict, discover_filters,
                   topology_profile, ret>>

\* TargetingType[text]: the member of the enumeration that has this name,
\* which is not the text
TargetingTypeItem(text) == "TargetingType." \o text

\* a slip: the membership tested before what the product version supports
resolve_targeting_type_membership_first(typedef, helper) ==
    IF ~Has(typedef, "targeting")
    THEN [raised |-> None, value |-> None, calls |-> {}]
    ELSE IF typedef["targeting"] \notin TargetingType
    THEN [raised |-> "WLSDPLY-12312", value |-> None, calls |-> {}]
    ELSE IF helper.set_server_groups_supported
    THEN [raised |-> "WLSDPLY-12311", value |-> None,
          calls |-> {"is_set_server_groups_supported", "get_weblogic_version"}]
    ELSE [raised |-> None, value |-> TargetingTypeItem(typedef["targeting"]),
          calls |-> {"is_set_server_groups_supported"}]

\* _resolve_targeting_type: no targeting is None; a targeting is an error
\* where the product version supports server groups, and where it is no
\* member of TargetingType
resolve_targeting_type(typedef, helper) ==
    IF ~Has(typedef, "targeting")
    THEN [raised |-> None, value |-> None, calls |-> {}]
    ELSE IF helper.set_server_groups_supported
    THEN [raised |-> "WLSDPLY-12311", value |-> None,
          calls |-> {"is_set_server_groups_supported", "get_weblogic_version"}]
    ELSE IF typedef["targeting"] \notin TargetingType
    THEN [raised |-> "WLSDPLY-12312", value |-> None,
          calls |-> {"is_set_server_groups_supported"}]
    ELSE [raised |-> None, value |-> TargetingTypeItem(typedef["targeting"]),
          calls |-> {"is_set_server_groups_supported"}]

\* a slip: the test of the product version turned round, as for the targeting
resolve_topology_profile_where_supported(typedefs_dict, helper) ==
    IF ~Has(typedefs_dict, "topologyProfile")
    THEN [raised |-> None, value |-> None, calls |-> {}]
    ELSE IF helper.topology_profile_supported
    THEN [raised |-> "WLSDPLY-12314", value |-> None,
          calls |-> {"is_topology_profile_supported", "get_weblogic_version"}]
    ELSE IF typedefs_dict["topologyProfile"] \notin TopologyProfile
    THEN [raised |-> "WLSDPLY-12315", value |-> None,
          calls |-> {"is_topology_profile_supported"}]
    ELSE [raised |-> None, value |-> typedefs_dict["topologyProfile"],
          calls |-> {"is_topology_profile_supported"}]

\* _resolve_topology_profile: no topologyProfile is None; a profile is an
\* error where the product version supports none, and where it is no member
\* of TopologyProfile
resolve_topology_profile(typedefs_dict, helper) ==
    IF ~Has(typedefs_dict, "topologyProfile")
    THEN [raised |-> None, value |-> None, calls |-> {}]
    ELSE IF ~helper.topology_profile_supported
    THEN [raised |-> "WLSDPLY-12314", value |-> None,
          calls |-> {"is_topology_profile_supported", "get_weblogic_version"}]
    ELSE IF typedefs_dict["topologyProfile"] \notin TopologyProfile
    THEN [raised |-> "WLSDPLY-12315", value |-> None,
          calls |-> {"is_topology_profile_supported"}]
    ELSE [raised |-> None, value |-> typedefs_dict["topologyProfile"],
          calls |-> {"is_topology_profile_supported"}]

\* a slip: the program not looked at, the exception of create for every one
convert_system_elements_key_name_for_create(key, program) ==
    IF key \in DOMAIN key_mapping_table
    THEN [raised |-> None, exc |-> None, value |-> key_mapping_table[key]]
    ELSE [raised |-> "WLSDPLY-12316", exc |-> "CreateException", value |-> None]

\* _convert_system_elements_key_name: the mapped key, or an exception whose
\* class follows the program
convert_system_elements_key_name(key, program) ==
    IF key \in DOMAIN key_mapping_table
    THEN [raised |-> None, exc |-> None, value |-> key_mapping_table[key]]
    ELSE [raised |-> "WLSDPLY-12316",
          exc |-> IF program = DISCOVER_DOMAIN THEN "DiscoverException"
                  ELSE "CreateException",
          value |-> None]

\* _translate_system_elements: every key converted, its value kept
translate_system_elements(system_elements_dict, program) ==
    LET conv(k) == convert_system_elements_key_name(k, program)
        bad == {k \in DOMAIN system_elements_dict : conv(k).raised # None}
    IN  IF bad # {}
        THEN [raised |-> conv(CHOOSE k \in bad : TRUE).raised,
              exc |-> conv(CHOOSE k \in bad : TRUE).exc,
              value |-> EmptyDict]
        ELSE [raised |-> None, exc |-> None,
              value |-> [new_key \in {conv(k).value : k \in DOMAIN system_elements_dict} |->
                            system_elements_dict[
                                CHOOSE k \in DOMAIN system_elements_dict :
                                    conv(k).value = new_key]]]

\* a slip: system-elements looked at first, so both keys give the translation
init_discover_filters_legacy_first(typedefs_dict, program) ==
    IF Has(typedefs_dict, "system-elements")
    THEN translate_system_elements(typedefs_dict["system-elements"], program)
    ELSE IF Has(typedefs_dict, "discover-filters")
    THEN [raised |-> None, exc |-> None, value |-> typedefs_dict["discover-filters"]]
    ELSE [raised |-> None, exc |-> None, value |-> EmptyDict]

\* the discover filters of __init__: discover-filters where the document has
\* them, else the translation of system-elements, else none
init_discover_filters(typedefs_dict, program) ==
    IF Has(typedefs_dict, "discover-filters")
    THEN [raised |-> None, exc |-> None, value |-> typedefs_dict["discover-filters"]]
    ELSE IF Has(typedefs_dict, "system-elements")
    THEN translate_system_elements(typedefs_dict["system-elements"], program)
    ELSE [raised |-> None, exc |-> None, value |-> EmptyDict]

\* the rest of __init__ once the while loop is over: the end of
\* __match_version_typedef and of __get_version_typedef, the targeting type,
\* the post-create script, the discover filters and the topology profile
FinishInit ==
    /\ pc = "matched"
    /\ IF ~exact_match(domain_typedefs_dict["versions"], wls_version) /\ result = None
       THEN /\ InitRaises("CLAException", "WLSDPLY-12309")
            /\ UNCHANGED <<version_typedef_name, domain_typedef, targeting_type,
                           post_create_domain_script_dict, discover_filters,
                           topology_profile, helper_calls>>
       ELSE IF is_not_supported(result)
       THEN /\ InitRaises("CLAException", "WLSDPLY-12313")
            /\ UNCHANGED <<version_typedef_name, domain_typedef, targeting_type,
                           post_create_domain_script_dict, discover_filters,
                           topology_profile, helper_calls>>
       ELSE /\ version_typedef_name' = result
            /\ IF ~Has(domain_typedefs_dict["definitions"], result)
               THEN /\ InitRaises("CLAException", "WLSDPLY-12306")
                    /\ UNCHANGED <<domain_typedef, targeting_type,
                                   post_create_domain_script_dict, discover_filters,
                                   topology_profile, helper_calls>>
               ELSE LET typedef == domain_typedefs_dict["definitions"][result]
                        targeting == resolve_targeting_type(typedef, wls_helper)
                        filters == init_discover_filters(domain_typedefs_dict, program_name)
                        profile == resolve_topology_profile(domain_typedefs_dict, wls_helper)
                    IN  /\ domain_typedef' = typedef
                        /\ IF targeting.raised # None
                           THEN /\ InitRaises("CLAException", targeting.raised)
                                /\ helper_calls' = helper_calls \cup targeting.calls
                                /\ UNCHANGED <<targeting_type,
                                               post_create_domain_script_dict,
                                               discover_filters, topology_profile>>
                           ELSE /\ targeting_type' = targeting.value
                                /\ post_create_domain_script_dict' =
                                       IF Has(typedef, "postCreateDomainScript")
                                       THEN <<typedef["postCreateDomainScript"]>>
                                       ELSE <<>>
                                /\ IF filters.raised # None
                                   THEN /\ InitRaises(filters.exc, filters.raised)
                                        /\ helper_calls' = helper_calls \cup targeting.calls
                                        /\ UNCHANGED <<discover_filters, topology_profile>>
                                   ELSE /\ discover_filters' = filters.value
                                        /\ helper_calls' = helper_calls \cup targeting.calls
                                                              \cup profile.calls
                                        /\ IF profile.raised # None
                                           THEN /\ InitRaises("CLAException", profile.raised)
                                                /\ UNCHANGED topology_profile
                                           ELSE /\ topology_profile' = profile.value
                                                /\ pc' = "ready"
                                                /\ ret' = Returned("__init__", <<>>, None)
    /\ UNCHANGED <<program_name, domain_type, is_windows, wls_helper, parsed_dict,
                   domain_typedefs_dict, wls_version, new_version, result,
                   paths_resolved, model_context>>

----------------------------------------------------------------------------
(* Path resolution. *)

\* the list of the templates, each with its tokens replaced
resolve_templates(mc, templates) ==
    [i \in 1..Len(templates) |-> replace_token_string(mc, templates[i])]

\* the typedef with the list under key replaced by its resolved templates,
\* or with the empty list where it has no such key
resolve_template_list(typedef, mc, key) ==
    IF Has(typedef, key)
    THEN Put(typedef, key, resolve_templates(mc, typedef[key]))
    ELSE Put(typedef, key, <<>>)

\* the typedef with the empty list under key where it has no such key
default_list(typedef, key) ==
    IF ~Has(typedef, key) THEN Put(typedef, key, <<>>) ELSE typedef

\* a slip: the flag not looked at, so every call resolves again
already_resolved_ignored(resolved) == FALSE

\* not (not self._paths_resolved)
already_resolved(resolved) == resolved

\* a slip: the check of the model context left out
context_missing_unchecked(mc) == FALSE

\* self._model_context is None
context_missing(mc) == mc = None

\* a slip: a missing baseTemplate defaulted like the lists, not refused
resolve_paths_base_defaulted(typedef, mc, resolved) ==
    IF already_resolved(resolved)
    THEN [raised |-> None, typedef |-> typedef, paths_resolved |-> resolved]
    ELSE IF context_missing(mc)
    THEN [raised |-> "WLSDPLY-12302", typedef |-> typedef, paths_resolved |-> resolved]
    ELSE LET t1 == IF Has(typedef, "baseTemplate")
                   THEN Put(typedef, "baseTemplate",
                            replace_token_string(mc, typedef["baseTemplate"]))
                   ELSE Put(typedef, "baseTemplate", <<>>)
             t2 == resolve_template_list(t1, mc, "extensionTemplates")
             t3 == resolve_template_list(t2, mc, "customExtensionTemplates")
             t4 == default_list(t3, "serverGroupsToTarget")
             t5 == default_list(t4, "dynamicClusterServerGroupsToTarget")
             t6 == default_list(t5, "rcuSchemas")
         IN  [raised |-> None, typedef |-> t6, paths_resolved |-> TRUE]

\* a slip: the server groups taken for paths, their tokens replaced too
resolve_paths_groups_substituted(typedef, mc, resolved) ==
    IF already_resolved(resolved)
    THEN [raised |-> None, typedef |-> typedef, paths_resolved |-> resolved]
    ELSE IF context_missing(mc)
    THEN [raised |-> "WLSDPLY-12302", typedef |-> typedef, paths_resolved |-> resolved]
    ELSE IF ~Has(typedef, "baseTemplate")
    THEN [raised |-> "WLSDPLY-12303", typedef |-> typedef, paths_resolved |-> resolved]
    ELSE LET t1 == Put(typedef, "baseTemplate",
                       replace_token_string(mc, typedef["baseTemplate"]))
             t2 == resolve_template_list(t1, mc, "extensionTemplates")
             t3 == resolve_template_list(t2, mc, "customExtensionTemplates")
             t4 == resolve_template_list(t3, mc, "serverGroupsToTarget")
             t5 == resolve_template_list(t4, mc, "dynamicClusterServerGroupsToTarget")
             t6 == default_list(t5, "rcuSchemas")
         IN  [raised |-> None, typedef |-> t6, paths_resolved |-> TRUE]

\* __resolve_paths: nothing once the paths are resolved; else an error with
\* no model context or no baseTemplate; else the tokens of the templates are
\* replaced, the missing lists become empty and the paths are resolved
resolve_paths(typedef, mc, resolved) ==
    IF already_resolved(resolved)
    THEN [raised |-> None, typedef |-> typedef, paths_resolved |-> resolved]
    ELSE IF context_missing(mc)
    THEN [raised |-> "WLSDPLY-12302", typedef |-> typedef, paths_resolved |-> resolved]
    ELSE IF ~Has(typedef, "baseTemplate")
    THEN [raised |-> "WLSDPLY-12303", typedef |-> typedef, paths_resolved |-> resolved]
    ELSE LET t1 == Put(typedef, "baseTemplate",
                       replace_token_string(mc, typedef["baseTemplate"]))
             t2 == resolve_template_list(t1, mc, "extensionTemplates")
             t3 == resolve_template_list(t2, mc, "customExtensionTemplates")
             t4 == default_list(t3, "serverGroupsToTarget")
             t5 == default_list(t4, "dynamicClusterServerGroupsToTarget")
             t6 == default_list(t5, "rcuSchemas")
         IN  [raised |-> None, typedef |-> t6, paths_resolved |-> TRUE]

\* what the object's own call of __resolve_paths does now
Resolution == resolve_paths(domain_typedef, model_context, paths_resolved)

\* the object after __resolve_paths: the definition is the dict held in the
\* document under definitions, so both show the change
StoreResolution(r) ==
    /\ domain_typedef' = r.typedef
    /\ paths_resolved' = r.paths_resolved
    /\ domain_typedefs_dict' =
           [domain_typedefs_dict EXCEPT !["definitions"][version_typedef_name] = r.typedef]

\* what no method changes after the constructor
ConstructedUnchanged ==
    UNCHANGED <<program_name, domain_type, is_windows, wls_helper, parsed_dict, pc,
                wls_version, new_version, result, version_typedef_name,
                targeting_type, post_create_domain_script_dict, discover_filters,
                topology_profile, helper_calls>>

\* a method that changes nothing
ObjectUnchanged ==
    /\ ConstructedUnchanged
    /\ UNCHANGED <<domain_typedefs_dict, domain_typedef, paths_resolved, model_context>>

\* a slip: the stored context not looked at, every context stored
set_model_context_every_time(mc) ==
    /\ pc = "ready"
    /\ LET r == resolve_paths(domain_typedef, mc, paths_resolved)
       IN  /\ model_context' = mc
           /\ StoreResolution(r)
           /\ ret' = IF r.raised # None
                     THEN Raised("set_model_context", <<mc>>, "CLAException", r.raised)
                     ELSE Returned("set_model_context", <<mc>>, None)
    /\ ConstructedUnchanged

\* a slip: the context stored after the paths are resolved, so not at all
\* where the resolution raises
set_model_context_resolving_first(mc) ==
    /\ pc = "ready"
    /\ IF model_context = None
       THEN LET r == resolve_paths(domain_typedef, mc, paths_resolved)
            IN  /\ model_context' = IF r.raised # None THEN model_context ELSE mc
                /\ StoreResolution(r)
                /\ ret' = IF r.raised # None
                          THEN Raised("set_model_context", <<mc>>, "CLAException", r.raised)
                          ELSE Returned("set_model_context", <<mc>>, None)
       ELSE /\ UNCHANGED <<model_context, domain_typedef, paths_resolved,
                           domain_typedefs_dict>>
            /\ ret' = Returned("set_model_context", <<mc>>, None)
    /\ ConstructedUnchanged

\* set_model_context: the first context that is not None is kept and the
\* paths are resolved with it
set_model_context(mc) ==
    /\ pc = "ready"
    /\ IF model_context = None
       THEN LET r == resolve_paths(domain_typedef, mc, paths_resolved)
            IN  /\ model_context' = mc
                /\ StoreResolution(r)
                /\ ret' = IF r.raised # None
                          THEN Raised("set_model_context", <<mc>>, "CLAException", r.raised)
                          ELSE Returned("set_model_context", <<mc>>, None)
       ELSE /\ UNCHANGED <<model_context, domain_typedef, paths_resolved,
                           domain_typedefs_dict>>
            /\ ret' = Returned("set_model_context", <<mc>>, None)
    /\ ConstructedUnchanged

\* a slip: the field returned without a call of __resolve_paths
PathGetter_without_resolution(op, key) ==
    /\ pc = "ready"
    /\ ret' = IF Has(domain_typedef, key)
              THEN Returned(op, <<>>, domain_typedef[key])
              ELSE Raised(op, <<>>, "KeyError", key)
    /\ ObjectUnchanged

\* a getter of a path-bearing field: the paths are resolved, then the field
\* is returned
PathGetter(op, key) ==
    /\ pc = "ready"
    /\ LET r == Resolution
       IN  /\ StoreResolution(r)
           /\ ret' = IF r.raised # None
                     THEN Raised(op, <<>>, "CLAException", r.raised)
                     ELSE Returned(op, <<>>, r.typedef[key])
    /\ UNCHANGED model_context
    /\ ConstructedUnchanged

get_base_template == PathGetter("get_base_template", "baseTemplate")

get_extension_templates == PathGetter("get_extension_templates", "extensionTemplates")

get_custom_extension_templates ==
    PathGetter("get_custom_extension_templates", "customExtensionTemplates")

get_server_groups_to_target ==
    PathGetter("get_server_groups_to_target", "serverGroupsToTarget")

get_dynamic_cluster_server_groups ==
    PathGetter("get_dynamic_cluster_server_groups", "dynamicClusterServerGroupsToTarget")

----------------------------------------------------------------------------
(* The methods that read the definition. *)

\* re.match(RESTRICTED_JRF_TEMPLATE_REGEX, template): the whole name
restricted_jrf_match(template) == template = RESTRICTED_JRF_TEMPLATE

\* re.match(JRF_TEMPLATE_REGEX, template): a JRF template jar anywhere in
\* the path, or the whole name
jrf_match(template) ==
    \/ template = JRF_TEMPLATE
    \/ \E i \in 1..Len(template) : template[i] = "/jrf_template.jar"

\* the loop of is_restricted_jrf_domain_type: it returns in its first turn,
\* and with no template the method returns None
restricted_jrf_scan(templates) ==
    IF templates = <<>> THEN None
    ELSE IF restricted_jrf_match(Head(templates)) THEN "True"
    ELSE "False"

\* the loop of is_jrf_domain_type
RECURSIVE jrf_scan(_)
jrf_scan(templates) ==
    IF templates = <<>> THEN FALSE
    ELSE IF jrf_match(Head(templates)) THEN TRUE
    ELSE jrf_scan(Tail(templates))

\* x in list
InList(x, list) == \E i \in 1..Len(list) : list[i] = x

\* is_jrf_domain_type on the resolved definition
jrf_domain_type(typedef) ==
    IF restricted_jrf_scan(typedef["extensionTemplates"]) = "True" THEN "False"
    ELSE IF jrf_scan(typedef["extensionTemplates"]) THEN "True"
    ELSE IF InList(JRF_SERVER_GROUP, typedef["serverGroupsToTarget"]) THEN "True"
    ELSE "False"

\* has_extension_templates on the resolved definition
extension_templates_present(typedef) == PyBool(Len(typedef["extensionTemplates"]) > 0)

\* what a method that answers from the resolved definition returns
query_answer(op, typedef) ==
    CASE op = "is_restricted_jrf_domain_type" ->
             restricted_jrf_scan(typedef["extensionTemplates"])
      [] op = "is_jrf_domain_type" -> jrf_domain_type(typedef)
      [] op = "has_extension_templates" -> extension_templates_present(typedef)

\* a method that resolves the paths and answers from the resolved definition
PathQuery(op) ==
    /\ pc = "ready"
    /\ LET r == Resolution
       IN  /\ StoreResolution(r)
           /\ ret' = IF r.raised # None
                     THEN Raised(op, <<>>, "CLAException", r.raised)
                     ELSE Returned(op, <<>>, query_answer(op, r.typedef))
    /\ UNCHANGED model_context
    /\ ConstructedUnchanged

is_restricted_jrf_domain_type == PathQuery("is_restricted_jrf_domain_type")

is_jrf_domain_type == PathQuery("is_jrf_domain_type")

has_extension_templates == PathQuery("has_extension_templates")

\* get_rcu_schemas: the list under rcuSchemas, a KeyError where the
\* definition has no such key
rcu_schemas(typedef) ==
    IF Has(typedef, "rcuSchemas")
    THEN Returned("get_rcu_schemas", <<>>, typedef["rcuSchemas"])
    ELSE Raised("get_rcu_schemas", <<>>, "KeyError", "rcuSchemas")

\* a slip: the empty list stored in the definition where it has no
\* rcuSchemas
get_rcu_schemas_storing_default ==
    /\ pc = "ready"
    /\ LET typedef == default_list(domain_typedef, "rcuSchemas")
       IN  /\ domain_typedef' = typedef
           /\ domain_typedefs_dict' =
                  [domain_typedefs_dict EXCEPT
                      !["definitions"][version_typedef_name] = typedef]
           /\ ret' = rcu_schemas(typedef)
    /\ UNCHANGED <<paths_resolved, model_context>>
    /\ ConstructedUnchanged

get_rcu_schemas ==
    /\ pc = "ready"
    /\ ret' = rcu_schemas(domain_typedef)
    /\ ObjectUnchanged

\* a slip: the length of the list not looked at
rcu_required_by_key(typedef) == Has(typedef, "rcuSchemas")

\* 'rcuSchemas' in typedef and len(typedef['rcuSchemas']) > 0
rcu_required(typedef) ==
    Has(typedef, "rcuSchemas") /\ Len(typedef["rcuSchemas"]) > 0

requires_rcu ==
    /\ pc = "ready"
    /\ ret' = Returned("requires_rcu", <<>>, PyBool(rcu_required(domain_typedef)))
    /\ ObjectUnchanged

get_domain_type ==
    /\ pc = "ready"
    /\ ret' = Returned("get_domain_type", <<>>, domain_type)
    /\ ObjectUnchanged

get_topology_profile ==
    /\ pc = "ready"
    /\ ret' = Returned("get_topology_profile", <<>>, topology_profile)
    /\ ObjectUnchanged

get_targeting ==
    /\ pc = "ready"
    /\ ret' = Returned("get_targeting", <<>>, targeting_type)
    /\ ObjectUnchanged

\* a slip: the platform not looked at, the unix script taken everywhere
post_create_domain_script_unix_only(script_dict, mc, windows) ==
    LET op == "get_post_create_domain_script"
    IN  IF script_dict = <<>> THEN Returned(op, <<>>, <<>>)
        ELSE IF mc = None THEN Raised(op, <<>>, "CLAException", "WLSDPLY-12302")
        ELSE IF Has(script_dict[1], "unixScript")
        THEN Returned(op, <<>>, <<replace_token_string(mc, script_dict[1]["unixScript"])>>)
        ELSE Returned(op, <<>>, <<>>)

\* get_post_create_domain_script: None with no script dict; an error with no
\* model context; else the script of the platform with its tokens replaced,
\* or None where the dict has no script for the platform
post_create_domain_script(script_dict, mc, windows) ==
    LET op == "get_post_create_domain_script"
        key == IF windows THEN "windowsScript" ELSE "unixScript"
    IN  IF script_dict = <<>> THEN Returned(op, <<>>, <<>>)
        ELSE IF mc = None THEN Raised(op, <<>>, "CLAException", "WLSDPLY-12302")
        ELSE IF Has(script_dict[1], key)
        THEN Returned(op, <<>>, <<replace_token_string(mc, script_dict[1][key])>>)
        ELSE Returned(op, <<>>, <<>>)

get_post_create_domain_script ==
    /\ pc = "ready"
    /\ ret' = post_create_domain_script(post_create_domain_script_dict,
                                        model_context, is_windows)
    /\ ObjectUnchanged

\* a slip: the loop returning in its first turn
filter_scan_first_only(filters, name) ==
    filters # <<>> /\ re_match(Head(filters), name)

\* the for loop of is_filtered: the first filter that matches ends it
RECURSIVE filter_scan(_, _)
filter_scan(filters, name) ==
    IF filters = <<>> THEN FALSE
    ELSE IF re_match(Head(filters), name) THEN TRUE
    ELSE filter_scan(Tail(filters), name)

\* a slip: no name taken for a name that the filters must match
filtered_by_scan(filters_dict, key, name) ==
    IF key \in DOMAIN filters_dict
    THEN filter_scan(filters_dict[key], IF name = <<>> THEN <<>> ELSE name[1])
    ELSE FALSE

\* is_filtered(location, name), key being location.get_folder_path() and
\* name being <<>> for None
filtered(filters_dict, key, name) ==
    IF key \in DOMAIN filters_dict
    THEN IF name = <<>> THEN TRUE
         ELSE filter_scan(filters_dict[key], name[1])
    ELSE FALSE

is_filtered(key, name) ==
    /\ pc = "ready"
    /\ ret' = Returned("is_filtered", <<key, name>>,
                       PyBool(filtered(discover_filters, key, name)))
    /\ ObjectUnchanged

----------------------------------------------------------------------------
(* The documents and the other inputs of the constructor. *)

\* a document with the versions table PlainVersions and the definition
\* typedef under "WLS"
PlainDocument(typedef) ==
    Item("versions", PlainVersions) @@ Item("definitions", Item("WLS", typedef))

\* an input of the constructor
Input(typedefs_dict, helper, program, windows) ==
    [typedefs_dict |-> typedefs_dict, helper |-> helper, program |-> program,
     windows |-> windows]

\* the version search: every versions table with every helper
SearchInputs ==
    {Input(d, h, CREATE_DOMAIN, FALSE) : d \in SearchDocuments, h \in SearchHelpers}

\* documents that lack versions or definitions, or whose versions name a
\* definition that is not there
StructureDocuments ==
    {EmptyDict,
     Item("definitions", Item("WLS", PlainTypedef)),
     Item("versions", PlainVersions),
     Item("versions", Item(VersionNames[1], "JRF"))
         @@ Item("definitions", Item("WLS", PlainTypedef))}

StructureInputs ==
    {Input(d, PlainHelper, CREATE_DOMAIN, FALSE) : d \in StructureDocuments}

\* a targeting and a topology profile, each absent, valid or unknown, with
\* every capability of the product version
TargetingTexts == {"APPLY_JRF_GLOBALLY", "DO_NOT_APPLY_JRF_GLOBALLY", "EVERYWHERE"}

ProfileTexts == {"Compact", "Expanded", "Sparse"}

CapabilityDocuments ==
    {PlainDocument(PlainTypedef @@ t) @@ p :
        t \in Dicts({"targeting"}, TargetingTexts),
        p \in Dicts({"topologyProfile"}, ProfileTexts)}

CapabilityInputs ==
    {Input(d, h, CREATE_DOMAIN, FALSE) : d \in CapabilityDocuments, h \in CapabilityHelpers}

\* object names and the regular expressions of the filters
Names == Lists({"a", "b"}, 2)

Patterns == {<<"a">>, <<"b", "a">>, <<".", "b">>}

FilterLists == Lists(Patterns, MaxFilters)

\* the folder paths is_filtered is asked about
FolderPaths == {"/JDBCSystemResource", "/Application", "/JMSServer"}

\* discover-filters: one folder with every filter list, and two folders
FilterTables ==
    {Item("/JDBCSystemResource", l) : l \in FilterLists}
        \cup {EmptyDict,
              Item("/JDBCSystemResource", <<<<"a">>>>) @@ Item("/Application", <<>>)}

\* system-elements: known keys and an unknown one
LegacyTables == Dicts({"datasources", "apps", "servers"}, {<<>>, <<<<".", "b">>>>})

FilterDocuments ==
    {PlainDocument(PlainTypedef) @@ Item("discover-filters", f) : f \in FilterTables}
        \cup {PlainDocument(PlainTypedef) @@ Item("system-elements", e) : e \in LegacyTables}
        \cup {PlainDocument(PlainTypedef)
                  @@ Item("discover-filters", Item("/JMSServer", <<<<"a">>>>))
                  @@ Item("system-elements", e) : e \in LegacyTables}

FilterInputs ==
    {Input(d, PlainHelper, p, FALSE) :
        d \in FilterDocuments, p \in {CREATE_DOMAIN, DISCOVER_DOMAIN}}

\* definitions that differ in their templates
ExtensionLists == Lists({WlPath, RESTRICTED_JRF_TEMPLATE}, MaxTemplates)

TemplateTypedefs ==
    {b @@ e @@ c :
        b \in Dicts({"baseTemplate"}, {TokenPath, PlainPath}),
        e \in Dicts({"extensionTemplates"}, ExtensionLists),
        c \in Dicts({"customExtensionTemplates"}, {<<>>, <<TokenPath>>})}

\* a server group whose name holds the text of a token
TokenGroup == <<"@@WL_HOME@@", "-SVR">>

\* definitions that differ in their server groups and RCU schemas
GroupTypedefs ==
    {b @@ g @@ d @@ r :
        b \in Dicts({"baseTemplate"}, {TokenPath}),
        g \in Dicts({"serverGroupsToTarget"}, {<<>>, <<JRF_SERVER_GROUP>>, <<TokenGroup>>}),
        d \in Dicts({"dynamicClusterServerGroupsToTarget"}, {<<TokenGroup>>}),
        r \in Dicts({"rcuSchemas"}, {<<>>, <<"MDS", "STB">>})}

\* definitions that differ in their post-create script
ScriptTypedefs ==
    {PlainTypedef @@ p :
        p \in Dicts({"postCreateDomainScript"},
                    Dicts({"unixScript", "windowsScript"},
                          {<<"@@ORACLE_HOME@@", "/post.sh">>}))}

TypedefInputs ==
    {Input(PlainDocument(t), PlainHelper, CREATE_DOMAIN, FALSE) :
        t \in TemplateTypedefs \cup GroupTypedefs}
        \cup {Input(PlainDocument(t), PlainHelper, CREATE_DOMAIN, w) :
                 t \in ScriptTypedefs, w \in BOOLEAN}

\* a second definition, with an extension template
JrfTypedef == Item("baseTemplate", PlainPath) @@ Item("extensionTemplates", <<WlPath>>)

\* documents with two definitions, or with one of the two, and a versions
\* table that names either for the two lowest versions
DefinitionDocuments ==
    {Item("versions", t) @@ Item("definitions", d) :
        t \in Dicts({VersionNames[1], VersionNames[2]}, {"WLS", "JRF"}),
        d \in {Item("WLS", PlainTypedef) @@ Item("JRF", JrfTypedef),
               Item("WLS", PlainTypedef)}}

DefinitionInputs ==
    {Input(d, PlainHelper, CREATE_DOMAIN, FALSE) : d \in DefinitionDocuments}

\* the inputs of the constructor
InitInputs ==
    SearchInputs \cup StructureInputs \cup CapabilityInputs \cup FilterInputs
        \cup TypedefInputs \cup DefinitionInputs

\* the inputs of the objects whose methods are called: of the version search
\* those whose current version is the lowest and whose helper skips no version
Inputs ==
    {in \in SearchInputs : in.helper = PlainHelper}
        \cup StructureInputs \cup CapabilityInputs \cup FilterInputs \cup TypedefInputs
        \cup DefinitionInputs

----------------------------------------------------------------------------
(* The specification. *)

\* the object as __init__ has it after parsing the document (lines 68-97)
Start(in) ==
        /\ program_name = in.program
        /\ domain_type = "WLS"
        /\ is_windows = in.windows
        /\ wls_helper = in.helper
        /\ parsed_dict = in.typedefs_dict
        /\ domain_typedefs_dict = in.typedefs_dict
        /\ pc = "new"
        /\ wls_version = None
        /\ new_version = None
        /\ result = None
        /\ version_typedef_name = None
        /\ paths_resolved = FALSE
        /\ model_context = None
        /\ domain_typedef = EmptyDict
        /\ targeting_type = None
        /\ post_create_domain_script_dict = <<>>
        /\ discover_filters = EmptyDict
        /\ topology_profile = None
        /\ helper_calls = {}
        /\ ret = NoCall

Init == \E in \in Inputs : Start(in)

InitOfInit == \E in \in InitInputs : Start(in)

\* the name argument of is_filtered: None or a name
NameArguments == {<<>>} \cup {<<n>> : n \in Names}

\* the constructor
NextOfInit ==
    \/ GetVersionTypedef
    \/ SearchVersion
    \/ FinishInit

\* the constructor and the calls made on the object
Next ==
    \/ GetVersionTypedef
    \/ SearchVersion
    \/ FinishInit
    \/ \E mc \in ModelContexts \cup {None} : set_model_context(mc)
    \/ get_domain_type
    \/ get_topology_profile
    \/ is_jrf_domain_type
    \/ is_restricted_jrf_domain_type
    \/ get_base_template
    \/ has_extension_templates
    \/ get_extension_templates
    \/ get_custom_extension_templates
    \/ get_server_groups_to_target
    \/ get_dynamic_cluster_server_groups
    \/ get_rcu_schemas
    \/ requires_rcu
    \/ get_targeting
    \/ get_post_create_domain_script
    \/ \E key \in FolderPaths, name \in NameArguments : is_filtered(key, name)

Spec == Init /\ [][Next]_vars

\* the constructor alone, on every input
SpecOfInit == InitOfInit /\ [][NextOfInit]_vars

----------------------------------------------------------------------------
(* Version resolution: what the claims speak of. *)

\* the versions table of the document, empty where it has none
VersionsTable ==
    IF Has(parsed_dict, "versions") THEN parsed_dict["versions"] ELSE EmptyDict

\* the document has what __get_version_typedef asks for first
WellFormed == Has(parsed_dict, "versions") /\ Has(parsed_dict, "definitions")

\* the versions the helper names after v, in order, up to its None answer
RECURSIVE Succession(_, _)
Succession(next_higher, v) ==
    IF next_higher[v] = None THEN <<>>
    ELSE <<next_higher[v]>> \o Succession(next_higher, next_higher[v])

\* the succession chain of the current version
Chain == Succession(wls_helper.next_higher, wls_helper.actual_version)

\* the places of the chain whose version is a key of the versions table
ChainKeys == {i \in 1..Len(Chain) : Chain[i] \in DOMAIN VersionsTable}

\* the first of them
FirstChainKey == CHOOSE i \in ChainKeys : \A j \in ChainKeys : i <= j

\* the current version is a key of the versions table
ExactKey == wls_helper.actual_version \in DOMAIN VersionsTable

\* the constructor is past __match_version_typedef's lookup, or over
PastLookup == pc \in {"matched", "ready", "failed"} /\ wls_version # None

\* the constructor is over
InitOver == pc \in {"ready", "failed"}

\* C1: when the current version is no key of the versions table, the entry
\* selected is that of the first version of the succession chain that is a
\* key: the search stops there, whatever later versions of the chain and
\* versions off the chain the table holds, and a constructed object has that
\* entry for its definition name.
FallbackSelectsFirstChainKey ==
    (PastLookup /\ WellFormed /\ ~ExactKey /\ ChainKeys # {}) =>
        /\ new_version = Chain[FirstChainKey]
        /\ result = VersionsTable[Chain[FirstChainKey]]
        /\ pc = "ready" => version_typedef_name = VersionsTable[Chain[FirstChainKey]]

\* C1 happens: an object constructed on the first key of the chain while the
\* table holds a later key of the chain with another entry and a key off the
\* chain
FallbackSelectsFirstChainKeyWitness ==
    /\ pc = "ready"
    /\ ~ExactKey
    /\ ChainKeys # {}
    /\ new_version = Chain[FirstChainKey]
    /\ \E j \in ChainKeys : j > FirstChainKey /\ VersionsTable[Chain[j]] # result
    /\ \E v \in DOMAIN VersionsTable : \A i \in 1..Len(Chain) : Chain[i] # v

\* C2 as stated: with the current version a key of the versions table,
\* resolution returns that key's entry and never asks for a next higher
\* version.
ExactKeyReturnsEntry ==
    (InitOver /\ WellFormed /\ ExactKey) =>
        /\ version_typedef_name = VersionsTable[wls_helper.actual_version]
        /\ "get_next_higher_order_version_number" \notin helper_calls

\* C2 as amended: with the current version a key of the versions table,
\* resolution never asks for a next higher version, and it returns that key's
\* entry unless the entry is NOT_SUPPORTED, where it raises WLSDPLY-12313.
ExactKeyReturnsEntryUnlessNotSupported ==
    (WellFormed /\ ExactKey) =>
        /\ "get_next_higher_order_version_number" \notin helper_calls
        /\ pc # "search"
        /\ PastLookup => result = VersionsTable[wls_helper.actual_version]
        /\ InitOver =>
              IF VersionsTable[wls_helper.actual_version] = NOT_SUPPORTED
              THEN /\ pc = "failed"
                   /\ ret.raised = "WLSDPLY-12313"
                   /\ version_typedef_name = None
              ELSE version_typedef_name = VersionsTable[wls_helper.actual_version]

\* C2 happens: an object constructed on an exact key while the table holds a
\* higher key too
ExactKeyWitness ==
    /\ pc = "ready"
    /\ ExactKey
    /\ version_typedef_name = VersionsTable[wls_helper.actual_version]
    /\ ChainKeys # {}

\* the entry the versions table has for the version that matches: the
\* current one, or else the first key of the chain
Matches == ExactKey \/ ChainKeys # {}

MatchedEntry ==
    IF ExactKey THEN VersionsTable[wls_helper.actual_version]
    ELSE VersionsTable[Chain[FirstChainKey]]

\* C3: when the matched entry is NOT_SUPPORTED the constructor raises
\* WLSDPLY-12313 and selects no definition; no object is constructed with
\* NOT_SUPPORTED for its definition name.
NotSupportedFails ==
    /\ (InitOver /\ WellFormed /\ Matches /\ MatchedEntry = NOT_SUPPORTED) =>
          /\ pc = "failed"
          /\ ret.exc = "CLAException"
          /\ ret.raised = "WLSDPLY-12313"
          /\ version_typedef_name = None
          /\ domain_typedef = EmptyDict
    /\ version_typedef_name # NOT_SUPPORTED

\* C3 happens: a fallback search that ended on a NOT_SUPPORTED entry
NotSupportedFailsWitness ==
    /\ pc = "failed"
    /\ ret.raised = "WLSDPLY-12313"
    /\ ~ExactKey
    /\ FirstChainKey > 1
    /\ MatchedEntry = NOT_SUPPORTED

\* C4: with an empty versions table the constructor raises WLSDPLY-12307
\* before any call of the helper; with a table that holds neither the current
\* version nor a version of its succession chain it raises WLSDPLY-12309; in
\* both cases no definition name is set.
NoMatchFails ==
    /\ (pc # "new" /\ WellFormed /\ DOMAIN VersionsTable = {}) =>
          /\ pc = "failed"
          /\ ret.exc = "CLAException"
          /\ ret.raised = "WLSDPLY-12307"
          /\ helper_calls = {}
          /\ version_typedef_name = None
    /\ (InitOver /\ WellFormed /\ DOMAIN VersionsTable # {} /\ ~Matches) =>
          /\ pc = "failed"
          /\ ret.exc = "CLAException"
          /\ ret.raised = "WLSDPLY-12309"
          /\ version_typedef_name = None
          /\ domain_typedef = EmptyDict

\* C4 happens: a search that ran through a chain of several versions to the
\* helper's None while the table held only versions off the chain
NoMatchFailsWitness ==
    /\ pc = "failed"
    /\ ret.raised = "WLSDPLY-12309"
    /\ Len(Chain) >= 2
    /\ DOMAIN VersionsTable # {}
    /\ new_version = None

----------------------------------------------------------------------------
(* The constructed object: what the claims speak of. *)

\* the definition as the document had it when it was parsed
LoadedTypedef == parsed_dict["definitions"][version_typedef_name]

\* the templates of the loaded definition under key with their tokens
\* replaced once, none where it has no such key
ReplacedOnce(key) ==
    IF Has(LoadedTypedef, key)
    THEN [i \in 1..Len(LoadedTypedef[key]) |->
             replace_token_string(model_context, LoadedTypedef[key][i])]
    ELSE <<>>

\* the getters of the path-bearing fields
PathGetters ==
    {"get_base_template", "get_extension_templates", "get_custom_extension_templates",
     "get_server_groups_to_target", "get_dynamic_cluster_server_groups"}

\* C5: once the paths are resolved, no call changes the definition or the
\* flag again, and the base template and every extension and custom
\* extension template are the loaded ones with the tokens replaced once by
\* the stored model context.
ResolutionIsIdempotent ==
    /\ [](paths_resolved =>
            /\ model_context # None
            /\ domain_typedef["baseTemplate"] =
                   replace_token_string(model_context, LoadedTypedef["baseTemplate"])
            /\ domain_typedef["extensionTemplates"] = ReplacedOnce("extensionTemplates")
            /\ domain_typedef["customExtensionTemplates"] =
                   ReplacedOnce("customExtensionTemplates"))
    /\ [][paths_resolved =>
            /\ paths_resolved'
            /\ domain_typedef' = domain_typedef
            /\ model_context' = model_context]_vars

\* C5 happens: a getter called again after set_model_context resolved paths
\* whose second substitution would differ from the first
ResolutionIsIdempotentWitness ==
    /\ paths_resolved
    /\ ret.op = "get_extension_templates"
    /\ ret.raised = None
    /\ Len(domain_typedef["extensionTemplates"]) >= 1
    /\ domain_typedef["baseTemplate"] # LoadedTypedef["baseTemplate"]
    /\ replace_token_string(model_context, domain_typedef["baseTemplate"])
           # domain_typedef["baseTemplate"]

\* C6: a path-bearing getter called with no model context stored raises
\* WLSDPLY-12302, returns nothing and leaves the definition and the flag as
\* they were, the flag being false.
GetterWithoutContextFails ==
    [][(pc = "ready" /\ model_context = None /\ ret'.op \in PathGetters) =>
          /\ ret'.exc = "CLAException"
          /\ ret'.raised = "WLSDPLY-12302"
          /\ ret'.value = <<>>
          /\ domain_typedef' = domain_typedef
          /\ domain_typedefs_dict' = domain_typedefs_dict
          /\ paths_resolved' = paths_resolved
          /\ ~paths_resolved'
          /\ model_context' = None]_vars

\* C6 happens: a getter that failed after set_model_context(None) on a
\* definition that has every field the getter would return
GetterWithoutContextFailsWitness ==
    /\ pc = "ready"
    /\ model_context = None
    /\ ret.op = "get_server_groups_to_target"
    /\ ret.raised = "WLSDPLY-12302"
    /\ Has(domain_typedef, "serverGroupsToTarget")
    /\ Has(domain_typedef, "baseTemplate")

\* C7 as stated: get_rcu_schemas never fails; it returns the rcuSchemas of
\* the definition, and the empty list where the definition has none.
GetRcuSchemasNeverFails ==
    ret.op = "get_rcu_schemas" =>
        /\ ret.raised = None
        /\ ret.value = <<IF Has(LoadedTypedef, "rcuSchemas")
                         THEN LoadedTypedef["rcuSchemas"] ELSE <<>>>>

\* C8: requires_rcu answers True where the loaded definition has a list of
\* rcuSchemas that is not empty and False otherwise, whatever the model
\* context and the resolution of the paths.
RequiresRcuFollowsLoadedList ==
    ret.op = "requires_rcu" =>
        /\ ret.raised = None
        /\ ret.value = <<PyBool(/\ Has(LoadedTypedef, "rcuSchemas")
                                /\ LoadedTypedef["rcuSchemas"] # <<>>)>>

\* C8 happens: False for a definition without rcuSchemas after its paths
\* were resolved
RequiresRcuFollowsLoadedListWitness ==
    /\ ret.op = "requires_rcu"
    /\ paths_resolved
    /\ ~Has(LoadedTypedef, "rcuSchemas")
    /\ ret.value = <<"False">>

\* the pattern matches the name from its first character on
MatchesPrefix(pattern, name) ==
    /\ Len(pattern) <= Len(name)
    /\ \A i \in 1..Len(pattern) : pattern[i] = "." \/ pattern[i] = name[i]

\* C9: is_filtered with a name answers True where the path is a key of the
\* filter table and some pattern of its list matches the name from its first
\* character on, and False otherwise.
IsFilteredByName ==
    (ret.op = "is_filtered" /\ ret.args[2] # <<>>) =>
        LET key == ret.args[1]
            name == ret.args[2][1]
        IN  /\ ret.raised = None
            /\ ret.value =
                   <<PyBool(/\ key \in DOMAIN discover_filters
                            /\ \E i \in 1..Len(discover_filters[key]) :
                                   MatchesPrefix(discover_filters[key][i], name))>>

\* C9 happens: True by the second pattern of a list whose first does not
\* match
IsFilteredByNameWitness ==
    /\ ret.op = "is_filtered"
    /\ ret.args[2] # <<>>
    /\ ret.value = <<"True">>
    /\ Len(discover_filters[ret.args[1]]) >= 2
    /\ ~MatchesPrefix(discover_filters[ret.args[1]][1], ret.args[2][1])

\* C10: is_filtered without a name answers True where the path is a key of
\* the filter table, whatever its list, and False otherwise.
IsFilteredByPath ==
    (ret.op = "is_filtered" /\ ret.args[2] = <<>>) =>
        /\ ret.raised = None
        /\ ret.value = <<PyBool(ret.args[1] \in DOMAIN discover_filters)>>

\* C10 happens: True for a key whose list is empty
IsFilteredByPathWitness ==
    /\ ret.op = "is_filtered"
    /\ ret.args[2] = <<>>
    /\ ret.value = <<"True">>
    /\ discover_filters[ret.args[1]] = <<>>

----------------------------------------------------------------------------
(* The constructed object: the Restricted JRF question and the post-create *)
(* script.                                                                 *)

\* C11 as stated: is_restricted_jrf_domain_type answers True where the
\* Restricted JRF template is anywhere in the resolved extension templates
\* and False otherwise, an empty list included.
RestrictedJrfAnywhere ==
    (ret.op = "is_restricted_jrf_domain_type" /\ ret.raised = None) =>
        ret.value = <<PyBool(InList(RESTRICTED_JRF_TEMPLATE,
                                    domain_typedef["extensionTemplates"]))>>

\* the post-create script section of the loaded definition
LoadedScripts == LoadedTypedef["postCreateDomainScript"]

\* the key of the platform's script
PlatformScript == IF is_windows THEN "windowsScript" ELSE "unixScript"

\* C12: get_post_create_domain_script returns None where the loaded
\* definition has no postCreateDomainScript; else it raises WLSDPLY-12302
\* with no model context stored; else it returns None where the section has
\* no script for the platform (windowsScript on Windows, unixScript
\* elsewhere), and else that script as loaded with its tokens replaced once.
\* The call changes nothing of the object, the stored scripts included.
PostCreateScriptFollowsLoadedSection ==
    /\ [](ret.op = "get_post_create_domain_script" =>
            IF ~Has(LoadedTypedef, "postCreateDomainScript")
            THEN ret.raised = None /\ ret.value = <<<<>>>>
            ELSE /\ post_create_domain_script_dict = <<LoadedScripts>>
                 /\ IF model_context = None
                    THEN /\ ret.exc = "CLAException"
                         /\ ret.raised = "WLSDPLY-12302"
                         /\ ret.value = <<>>
                    ELSE /\ ret.raised = None
                         /\ ret.value =
                                IF Has(LoadedScripts, PlatformScript)
                                THEN <<<<replace_token_string(
                                             model_context,
                                             LoadedScripts[PlatformScript])>>>>
                                ELSE <<<<>>>>)
    /\ [][ret'.op = "get_post_create_domain_script" =>
            /\ post_create_domain_script_dict' = post_create_domain_script_dict
            /\ domain_typedef' = domain_typedef
            /\ domain_typedefs_dict' = domain_typedefs_dict
            /\ model_context' = model_context
            /\ paths_resolved' = paths_resolved]_vars

\* C12 happens: on Windows, the windows script returned with its tokens
\* replaced by a context whose second substitution would differ from the
\* first, after the paths were resolved
PostCreateScriptWitness ==
    /\ ret.op = "get_post_create_domain_script"
    /\ is_windows
    /\ paths_resolved
    /\ Has(LoadedTypedef, "postCreateDomainScript")
    /\ Has(LoadedScripts, "windowsScript")
    /\ ~Has(LoadedScripts, "unixScript")
    /\ ret.value = <<<<replace_token_string(model_context, LoadedScripts["windowsScript"])>>>>
    /\ replace_token_string(model_context, ret.value[1][1]) # ret.value[1][1]

----------------------------------------------------------------------------
(* A definition without baseTemplate. *)

\* an object was constructed on a definition that has no baseTemplate
ConstructedWithoutBase == pc = "ready" /\ ~Has(LoadedTypedef, "baseTemplate")

\* the methods that call __resolve_paths before they answer
PathMethods ==
    PathGetters \cup {"is_jrf_domain_type", "is_restricted_jrf_domain_type",
                      "has_extension_templates"}

\* the accessors that read no path
PlainAccessors == {"requires_rcu", "get_targeting", "get_topology_profile", "is_filtered"}

\* C13: a definition without baseTemplate does not make the constructor
\* raise WLSDPLY-12303.  On the object constructed from it the accessors that
\* read no path return; the paths are never resolved; WLSDPLY-12303 is raised
\* by set_model_context and by the methods that resolve the paths only, and
\* only with a model context stored; a method that resolves the paths raises
\* it whenever a context is stored, and set_model_context raises it when it
\* stores the first context.
MissingBaseTemplateFailsAtResolution ==
    /\ [](ret.op = "__init__" => ret.raised # "WLSDPLY-12303")
    /\ [](ConstructedWithoutBase =>
            /\ ~paths_resolved
            /\ ~Has(domain_typedef, "baseTemplate")
            /\ ret.op \in PlainAccessors => (ret.raised = None /\ ret.value # <<>>)
            /\ ret.raised = "WLSDPLY-12303" =>
                   /\ ret.op \in PathMethods \cup {"set_model_context"}
                   /\ ret.exc = "CLAException"
                   /\ model_context # None
            /\ (ret.op \in PathMethods /\ model_context # None) =>
                   ret.raised = "WLSDPLY-12303")
    /\ [][(ConstructedWithoutBase /\ ret'.op = "set_model_context"
              /\ model_context = None /\ ret'.args[1] # None) =>
            /\ ret'.raised = "WLSDPLY-12303"
            /\ model_context' = ret'.args[1]]_vars

\* C13 happens: on an object without baseTemplate requires_rcu answered
\* before any context was set, then set_model_context raised, then a getter
\* raised; the last of these is the state described
MissingBaseTemplateWitness ==
    /\ ConstructedWithoutBase
    /\ model_context # None
    /\ ret.op = "get_extension_templates"
    /\ ret.raised = "WLSDPLY-12303"
    /\ Has(LoadedTypedef, "extensionTemplates")

----------------------------------------------------------------------------
(* The version search with a helper of any succession. *)

\* successions that need not increase: an increasing succession with one of
\* its answers replaced by another version or None, so that the helper may
\* name a lower version and may come back to a version it left
AnyNextHigherTables ==
    UNION {{[f EXCEPT ![v] = w] : f \in NextHigherTables,
                                   w \in (Versions \ {v}) \cup {None}} :
              v \in Versions}

\* the helpers of these successions, the current version being the lowest
AnyHelpers ==
    {[actual_version |-> VersionNames[1], next_higher |-> f,
      set_server_groups_supported |-> TRUE, topology_profile_supported |-> TRUE] :
        f \in AnyNextHigherTables}

\* the documents whose versions table names the one definition
AnySearchDocuments ==
    {Item("versions", t) @@ Item("definitions", Item("WLS", PlainTypedef)) :
        t \in Dicts(Versions, {"WLS"})}

AnySearchInputs ==
    {Input(d, h, CREATE_DOMAIN, FALSE) : d \in AnySearchDocuments, h \in AnyHelpers}

InitOfSearch == \E in \in AnySearchInputs : Start(in)

\* the constructor with a helper of any succession; the interpreter keeps
\* running the constructor while it has a step to take
SpecOfSearch == InitOfSearch /\ [][NextOfInit]_vars /\ WF_vars(NextOfInit)

\* the version the helper names n questions after v, None once it said None
RECURSIVE Probed(_, _, _)
Probed(next_higher, v, n) ==
    IF n = 0 \/ v = None THEN v
    ELSE Probed(next_higher, next_higher[v], n - 1)

\* the succession of the current version comes to a key of the versions
\* table or to the helper's None: a succession that does neither within as
\* many questions as there are versions never does
SearchEnds ==
    \E n \in 1..MaxVersion :
        LET probed == Probed(wls_helper.next_higher, wls_helper.actual_version, n)
        IN  probed = None \/ probed \in DOMAIN VersionsTable

\* C14 as stated: the fallback search terminates whatever the helper's
\* succession is.
SearchTerminates == (pc = "search") ~> (pc # "search")

\* C14 as amended: the fallback search probes the helper's next higher
\* version until the probed version is a key of the versions table or the
\* helper answers None; it terminates where the succession of the current
\* version comes to a key or to None, which every increasing succession
\* does, and it runs forever where the succession comes back to a version it
\* left without passing a key.
SearchTerminatesUnlessCyclic ==
    /\ [](pc = "search" => /\ ~ExactKey
                           /\ result = None
                           /\ "get_next_higher_order_version_number" \in helper_calls)
    /\ []((pc = "matched" /\ ~ExactKey) =>
            \/ new_version = None /\ result = None
            \/ new_version \in DOMAIN VersionsTable /\ result = VersionsTable[new_version])
    /\ ((pc = "search" /\ SearchEnds) ~> (pc # "search"))
    /\ [][(pc = "search" /\ ~SearchEnds) => pc' = "search"]_vars

\* C14 happens: a search that ended on a key after the helper named a lower
\* version than the one it was asked about
SearchTerminatesWitness ==
    /\ pc = "ready"
    /\ ~ExactKey
    /\ new_version \in DOMAIN VersionsTable
    /\ \E v \in Versions :
          /\ wls_helper.next_higher[v] = new_version
          /\ VersionIndex(new_version) < VersionIndex(v)
          /\ v # wls_helper.actual_version

----------------------------------------------------------------------------
(* The discover filters of the constructor. *)

\* the messages of the errors __init__ raises before it comes to the
\* discover filters
ErrorsBeforeFilters ==
    {"WLSDPLY-12304", "WLSDPLY-12305", "WLSDPLY-12306", "WLSDPLY-12307",
     "WLSDPLY-12309", "WLSDPLY-12311", "WLSDPLY-12312", "WLSDPLY-12313"}

\* the constructor is over and came to the discover filters
PastFilters == InitOver /\ ret.raised \notin ErrorsBeforeFilters

\* the document has system-elements and no discover-filters
LegacyOnly ==
    Has(parsed_dict, "system-elements") /\ ~Has(parsed_dict, "discover-filters")

\* C15: where __init__ translates system-elements and every legacy key is in
\* the mapping table, the filter table has exactly the mapped folder paths
\* for keys, each with the pattern list of its legacy key; where some legacy
\* key is outside the mapping table the constructor raises WLSDPLY-12316, a
\* DiscoverException for discoverDomain and a CreateException otherwise, and
\* no filter table is stored.
LegacyTranslation ==
    (PastFilters /\ LegacyOnly) =>
        LET legacy == parsed_dict["system-elements"]
        IN  IF DOMAIN legacy \subseteq DOMAIN key_mapping_table
            THEN /\ ret.raised # "WLSDPLY-12316"
                 /\ DOMAIN discover_filters = {key_mapping_table[k] : k \in DOMAIN legacy}
                 /\ \A k \in DOMAIN legacy :
                        discover_filters[key_mapping_table[k]] = legacy[k]
            ELSE /\ pc = "failed"
                 /\ ret.raised = "WLSDPLY-12316"
                 /\ ret.exc = IF program_name = DISCOVER_DOMAIN
                              THEN "DiscoverException" ELSE "CreateException"
                 /\ discover_filters = EmptyDict

\* C15 happens: an object constructed from two legacy keys with different
\* pattern lists
LegacyTranslationWitness ==
    /\ pc = "ready"
    /\ LegacyOnly
    /\ DOMAIN parsed_dict["system-elements"] = {"datasources", "apps"}
    /\ discover_filters["/JDBCSystemResource"] = <<<<".", "b">>>>
    /\ discover_filters["/Application"] = <<>>

\* C20: a document with discover-filters has them for its filter table,
\* system-elements or not, and the constructor raises no WLSDPLY-12316
\* whatever keys system-elements has; a document with system-elements alone
\* has their translation, or the constructor raised WLSDPLY-12316; a
\* document with neither has the empty table.
DiscoverFiltersWin ==
    PastFilters =>
        IF Has(parsed_dict, "discover-filters")
        THEN /\ discover_filters = parsed_dict["discover-filters"]
             /\ ret.raised # "WLSDPLY-12316"
        ELSE IF Has(parsed_dict, "system-elements")
        THEN \/ /\ ret.raised = "WLSDPLY-12316"
                /\ discover_filters = EmptyDict
                /\ \E k \in DOMAIN parsed_dict["system-elements"] :
                       k \notin DOMAIN key_mapping_table
             \/ /\ ret.raised # "WLSDPLY-12316"
                /\ \A path \in DOMAIN discover_filters :
                       \E k \in DOMAIN parsed_dict["system-elements"] :
                           /\ key_mapping_table[k] = path
                           /\ parsed_dict["system-elements"][k] = discover_filters[path]
                /\ \A k \in DOMAIN parsed_dict["system-elements"] :
                       key_mapping_table[k] \in DOMAIN discover_filters
        ELSE /\ discover_filters = EmptyDict
             /\ ret.raised # "WLSDPLY-12316"

\* C20 happens: an object constructed with its discover-filters for filter
\* table while system-elements held a key outside the mapping table and a
\* key whose translation the discover-filters do not have
DiscoverFiltersWinWitness ==
    /\ pc = "ready"
    /\ Has(parsed_dict, "discover-filters")
    /\ Has(parsed_dict, "system-elements")
    /\ "servers" \in DOMAIN parsed_dict["system-elements"]
    /\ "apps" \in DOMAIN parsed_dict["system-elements"]
    /\ DOMAIN discover_filters = {"/JMSServer"}

----------------------------------------------------------------------------
(* The targeting type and the topology profile. *)

\* the messages of the errors __init__ raises before it comes to the
\* targeting type
ErrorsBeforeTargeting ==
    {"WLSDPLY-12304", "WLSDPLY-12305", "WLSDPLY-12306", "WLSDPLY-12307",
     "WLSDPLY-12309", "WLSDPLY-12313"}

\* the constructor is over and came to the targeting type
PastTargeting ==
    \/ pc = "ready"
    \/ pc = "failed" /\ ret.raised \notin ErrorsBeforeTargeting

\* the messages of the errors of _resolve_targeting_type
TargetingErrors == {"WLSDPLY-12311", "WLSDPLY-12312"}

\* C16: a definition without targeting gives None; a targeting, whatever its
\* value, makes the constructor raise WLSDPLY-12311 where the product
\* version supports server groups; where it does not, a value outside
\* TargetingType makes it raise WLSDPLY-12312, and else the targeting type
\* is the member of TargetingType named by the value, which get_targeting
\* returns.
TargetingResolution ==
    PastTargeting =>
        IF ~Has(LoadedTypedef, "targeting")
        THEN /\ targeting_type = None
             /\ pc = "failed" => ret.raised \notin TargetingErrors
             /\ ret.op = "get_targeting" => ret.value = <<None>>
        ELSE IF wls_helper.set_server_groups_supported
        THEN /\ pc = "failed"
             /\ ret.exc = "CLAException"
             /\ ret.raised = "WLSDPLY-12311"
             /\ targeting_type = None
        ELSE IF LoadedTypedef["targeting"] \notin TargetingType
        THEN /\ pc = "failed"
             /\ ret.exc = "CLAException"
             /\ ret.raised = "WLSDPLY-12312"
             /\ targeting_type = None
        ELSE /\ pc = "failed" => ret.raised \notin TargetingErrors
             /\ targeting_type = TargetingTypeItem(LoadedTypedef["targeting"])
             /\ targeting_type # LoadedTypedef["targeting"]
             /\ ret.op = "get_targeting" => ret.value = <<targeting_type>>

\* C16 happens: get_targeting returned the member of a valid targeting on a
\* product version without server groups
TargetingResolutionWitness ==
    /\ pc = "ready"
    /\ ret.op = "get_targeting"
    /\ ~wls_helper.set_server_groups_supported
    /\ LoadedTypedef["targeting"] = "DO_NOT_APPLY_JRF_GLOBALLY"
    /\ ret.value = <<TargetingTypeItem("DO_NOT_APPLY_JRF_GLOBALLY")>>

\* the constructor is over and came to the topology profile
PastProfile ==
    \/ pc = "ready"
    \/ pc = "failed" /\ ret.raised \notin ErrorsBeforeFilters \cup {"WLSDPLY-12316"}

\* C17: a document without topologyProfile gives None; a topologyProfile,
\* whatever its value, makes the constructor raise WLSDPLY-12314 where the
\* product version supports no topology profiles; where it does, a value
\* outside TopologyProfile makes it raise WLSDPLY-12315, and else the
\* topology profile is the value itself, which get_topology_profile returns.
TopologyProfileResolution ==
    PastProfile =>
        IF ~Has(parsed_dict, "topologyProfile")
        THEN /\ pc = "ready"
             /\ topology_profile = None
             /\ ret.op = "get_topology_profile" => ret.value = <<None>>
        ELSE IF ~wls_helper.topology_profile_supported
        THEN /\ pc = "failed"
             /\ ret.exc = "CLAException"
             /\ ret.raised = "WLSDPLY-12314"
             /\ topology_profile = None
        ELSE IF parsed_dict["topologyProfile"] \notin TopologyProfile
        THEN /\ pc = "failed"
             /\ ret.exc = "CLAException"
             /\ ret.raised = "WLSDPLY-12315"
             /\ topology_profile = None
        ELSE /\ pc = "ready"
             /\ topology_profile = parsed_dict["topologyProfile"]
             /\ ret.op = "get_topology_profile" =>
                    ret.value = <<parsed_dict["topologyProfile"]>>

\* C17 happens: get_topology_profile returned a valid profile on a product
\* version that supports profiles and no server groups, the definition
\* having a targeting too
TopologyProfileResolutionWitness ==
    /\ pc = "ready"
    /\ ret.op = "get_topology_profile"
    /\ wls_helper.topology_profile_supported
    /\ ret.value = <<"Expanded">>
    /\ Has(LoadedTypedef, "targeting")

----------------------------------------------------------------------------
(* The model context and the state of the constructed object. *)

\* C18: set_model_context stores its argument where no context is stored;
\* once a context is stored, a call of set_model_context, with the same or
\* another context, returns and leaves the stored context, the flag and the
\* definition as they were; no call changes a stored context, and the
\* resolved base template is the loaded one with its tokens replaced by the
\* stored context.
ContextIsInjectedOnce ==
    /\ [][(model_context = None /\ ret'.op = "set_model_context") =>
            model_context' = ret'.args[1]]_vars
    /\ [][(model_context # None /\ ret'.op = "set_model_context") =>
            /\ ret'.raised = None
            /\ model_context' = model_context
            /\ paths_resolved' = paths_resolved
            /\ domain_typedef' = domain_typedef
            /\ domain_typedefs_dict' = domain_typedefs_dict]_vars
    /\ [][model_context # None => model_context' = model_context]_vars
    /\ [](paths_resolved =>
            domain_typedef["baseTemplate"] =
                replace_token_string(model_context, LoadedTypedef["baseTemplate"]))

\* C18 happens: set_model_context called with another context after the
\* paths were resolved with the first, the two contexts giving different
\* base templates
ContextIsInjectedOnceWitness ==
    /\ ret.op = "set_model_context"
    /\ ret.args = <<"mc2">>
    /\ model_context = "mc1"
    /\ paths_resolved
    /\ domain_typedef["baseTemplate"]
           # replace_token_string("mc2", LoadedTypedef["baseTemplate"])

\* the methods that read the object and resolve no path
ReadingMethods ==
    {"is_filtered", "get_targeting", "get_topology_profile", "get_domain_type",
     "requires_rcu", "get_rcu_schemas", "get_post_create_domain_script"}

----------------------------------------------------------------------------
(* The resolved definition. *)

\* the list the loaded definition has under key, the empty list where it
\* has none
LoadedList(key) == IF Has(LoadedTypedef, key) THEN LoadedTypedef[key] ELSE <<>>

\* the keys of the server group lists
GroupKeys == {"serverGroupsToTarget", "dynamicClusterServerGroupsToTarget"}

\* the keys of the template lists
TemplateKeys == {"extensionTemplates", "customExtensionTemplates"}

----------------------------------------------------------------------------
(* The definition of the constructed object. *)

\* C22: a document without versions makes the constructor raise
\* WLSDPLY-12304 and one with versions and without definitions
\* WLSDPLY-12305, both before any call of the helper; a matched entry that
\* is no key of definitions makes it raise WLSDPLY-12306; a constructed
\* object has for its definition the entry of definitions under the name the
\* versions table gives for the matched version.
DefinitionIsTheMatchedEntry ==
    /\ pc = "new" => helper_calls = {}
    /\ (pc # "new" /\ ~Has(parsed_dict, "versions")) =>
          /\ pc = "failed"
          /\ ret.exc = "CLAException"
          /\ ret.raised = "WLSDPLY-12304"
          /\ helper_calls = {}
    /\ (pc # "new" /\ Has(parsed_dict, "versions") /\ ~Has(parsed_dict, "definitions")) =>
          /\ pc = "failed"
          /\ ret.exc = "CLAException"
          /\ ret.raised = "WLSDPLY-12305"
          /\ helper_calls = {}
    /\ (InitOver /\ WellFormed /\ Matches /\ MatchedEntry # NOT_SUPPORTED
            /\ MatchedEntry \notin DOMAIN parsed_dict["definitions"]) =>
          /\ pc = "failed"
          /\ ret.exc = "CLAException"
          /\ ret.raised = "WLSDPLY-12306"
          /\ domain_typedef = EmptyDict
    /\ pc = "ready" =>
          /\ WellFormed
          /\ Matches
          /\ version_typedef_name = MatchedEntry
          /\ version_typedef_name \in DOMAIN parsed_dict["definitions"]
          /\ domain_typedef = domain_typedefs_dict["definitions"][version_typedef_name]
          /\ ~paths_resolved => domain_typedef = parsed_dict["definitions"][MatchedEntry]

\* C22 happens: an object constructed on the second of two definitions,
\* which the versions table names for a higher version than the current one
DefinitionIsTheMatchedEntryWitness ==
    /\ pc = "ready"
    /\ ~ExactKey
    /\ version_typedef_name = "JRF"
    /\ DOMAIN parsed_dict["definitions"] = {"WLS", "JRF"}
    /\ domain_typedef = JrfTypedef
    /\ domain_typedef # parsed_dict["definitions"]["WLS"]

----------------------------------------------------------------------------
(* The flag of the resolved paths. *)

\* C23: on an object whose definition has no baseTemplate the
\* set_model_context that stores the first context raises WLSDPLY-12303,
\* keeps the context stored, leaves the flag false and the definition as it
\* was loaded; from then on the context stays, the flag stays false, the
\* definition stays as loaded and every getter of a path-bearing field
\* raises WLSDPLY-12303.
FailedInjectionKeepsContext ==
    /\ [][(ConstructedWithoutBase /\ model_context = None
              /\ ret'.op = "set_model_context" /\ ret'.args[1] # None) =>
            /\ ret'.exc = "CLAException"
            /\ ret'.raised = "WLSDPLY-12303"
            /\ model_context' = ret'.args[1]
            /\ ~paths_resolved'
            /\ domain_typedef' = domain_typedef
            /\ domain_typedefs_dict' = domain_typedefs_dict]_vars
    /\ []((ConstructedWithoutBase /\ model_context # None) =>
            /\ ~paths_resolved
            /\ domain_typedef = LoadedTypedef
            /\ domain_typedefs_dict = parsed_dict
            /\ ret.op \in PathGetters =>
                   /\ ret.exc = "CLAException"
                   /\ ret.raised = "WLSDPLY-12303"
                   /\ ret.value = <<>>)
    /\ [][(ConstructedWithoutBase /\ model_context # None) =>
            /\ model_context' = model_context
            /\ ~paths_resolved']_vars

\* C23 happens: get_custom_extension_templates raised for the missing
\* baseTemplate with a context stored, the definition still holding its
\* extension templates with their tokens and no list that it was not loaded
\* with
FailedInjectionKeepsContextWitness ==
    /\ ConstructedWithoutBase
    /\ model_context = "mc2"
    /\ ret.op = "get_custom_extension_templates"
    /\ ret.raised = "WLSDPLY-12303"
    /\ Has(domain_typedef, "extensionTemplates")
    /\ InList(WlPath, domain_typedef["extensionTemplates"])
    /\ ~Has(domain_typedef, "customExtensionTemplates")

\* the keys a resolved definition has
ResolvedKeys ==
    {"baseTemplate", "extensionTemplates", "customExtensionTemplates",
     "serverGroupsToTarget", "dynamicClusterServerGroupsToTarget", "rcuSchemas"}

\* C24: in every state where the flag is true the object is constructed, a
\* model context is stored and the definition has every key of a resolved
\* definition; the flag is false until the object is constructed and once
\* true it stays true; a getter of a path-bearing field has returned a value
\* only where the flag is true.
ResolvedFlagInvariant ==
    /\ [](paths_resolved =>
            /\ pc = "ready"
            /\ model_context # None
            /\ ResolvedKeys \subseteq DOMAIN domain_typedef)
    /\ [](pc # "ready" => ~paths_resolved)
    /\ [][paths_resolved => paths_resolved']_vars
    /\ []((ret.op \in PathGetters /\ ret.raised = None) =>
            /\ paths_resolved
            /\ ret.value # <<>>)

\* C24 happens: a getter returned from a resolved definition that was loaded
\* with its baseTemplate alone
ResolvedFlagInvariantWitness ==
    /\ paths_resolved
    /\ ret.op = "get_dynamic_cluster_server_groups"
    /\ ret.raised = None
    /\ DOMAIN LoadedTypedef = {"baseTemplate"}
    /\ DOMAIN domain_typedef = ResolvedKeys

====
